---- MODULE Spec2Model ----
(***************************************************************************)
(* Model of the authenticated publishing session of wiki_publish.py:       *)
(* login with bot-password fallback, create_bot_password, edit_page with   *)
(* its retry loop, and the CLI entry point main.                           *)
(*                                                                         *)
(* The Python call stack is the variable `stack` (a sequence of frames,    *)
(* the last one running).  Every remote round-trip is one action whose     *)
(* reply is chosen nondeterministically; `log` records the round-trips in  *)
(* the order they were made.  Strings that the code inspects (identities)  *)
(* are sequences of one-character strings.                                 *)
(***************************************************************************)
EXTENDS Integers, Sequences, FiniteSets, TLC

VARIABLES
    stack,      \* the call stack: frames of main / login / create_bot_password / edit_page
    ret,        \* the value being returned to the caller on top of the stack
    outcome,    \* how the bottom frame ended: running, returned or raised
    log,        \* the remote round-trips made so far, oldest first
    surfaced,   \* the credentials main has reported to the operator (lines 328-334)
    args,       \* the arguments the bottom frame was called with (never assigned)
    procs       \* wiki_client.py: the local state of each request being served

vars == <<stack, ret, outcome, log, surfaced, args, procs>>

----------------------------------------------------------------------------
(* Bounds *)

\* Depth at which the interpreter refuses another call (RecursionError).
RecursionLimit == 6

\* Largest retry count tried for edit_page when it is called on its own.
MaxRetries == 2

(* Program constants *)

\* edit_page(..., retries: int = 2)
DefaultRetries == 2

\* DEFAULT_BOT_SUFFIX = "PsiAdirondackBot" (no '@' in it)
DEFAULT_BOT_SUFFIX == <<"P", "B">>

----------------------------------------------------------------------------
(* Inputs and remote replies *)

\* Identities main can be started with: plain ones and one that already
\* looks like a scoped identity.
Identities == { <<"a">>, <<"a", "@", "P", "B">> }

PrimaryPassword == "pw"

None == "None"

\* Replies to action=login: HTTP status, login.result and login.code
\* ("NONE" = the field is absent from the envelope).
LoginReplies ==
    { [http |-> 200, result |-> "Success", code |-> "NONE"],
      [http |-> 200, result |-> "Success", code |-> "WrongPass"],
      [http |-> 200, result |-> "Failed",  code |-> "WrongPass"],
      [http |-> 200, result |-> "Failed",  code |-> "Throttled"],
      [http |-> 200, result |-> "NONE",    code |-> "NONE"],
      [http |-> 500, result |-> "Success", code |-> "NONE"] }

\* Replies to action=botpasswords: HTTP status, botpasswords.status and
\* botpasswords.password.
BotReplies ==
    { [http |-> 200, status |-> "success", password |-> "s1"],
      [http |-> 200, status |-> "success", password |-> "NONE"],
      [http |-> 200, status |-> "error",   password |-> "NONE"],
      [http |-> 500, status |-> "success", password |-> "s1"] }

\* Replies to action=edit: HTTP status (0 = no response, the transport
\* raised), edit.result and edit.newrevid.
EditReplies ==
    { [http |-> 200, result |-> "Success", newrevid |-> 12345],
      [http |-> 200, result |-> "Failure", newrevid |-> 0],
      [http |-> 200, result |-> "NONE",    newrevid |-> 0],
      [http |-> 429, result |-> "NONE",    newrevid |-> 0],
      [http |-> 429, result |-> "Success", newrevid |-> 12345],
      [http |-> 500, result |-> "NONE",    newrevid |-> 0],
      [http |-> 0,   result |-> "NONE",    newrevid |-> 0] }

\* A token fetch yields the token field, or the field is missing from the
\* envelope, or the request is answered with an HTTP error status.
TokenReplies == { "token", "missing", "http500" }

----------------------------------------------------------------------------
(* Pure helpers *)

\* "@" in username
HasAt(s) == \E i \in 1..Len(s) : s[i] = "@"

\* f"{main_username}@{botname}"
BotUsername(main_username, botname) == main_username \o <<"@">> \o botname

\* Mutant of RaisesForStatus: the status of a response is not looked at.
RaisesForStatus_Unchecked(http) == http = 0

\* response.raise_for_status(): raises for 4xx/5xx; http = 0 stands for a
\* request that raised before any response arrived.
RaisesForStatus(http) == http = 0 \/ http >= 400

\* Entries of the log with a given op.
RECURSIVE CountOp(_, _)
CountOp(l, op) ==
    IF l = <<>> THEN 0
    ELSE (IF Head(l).op = op THEN 1 ELSE 0) + CountOp(Tail(l), op)

\* Entries of the log with a given op and result.
RECURSIVE CountOpRes(_, _, _)
CountOpRes(l, op, res) ==
    IF l = <<>> THEN 0
    ELSE (IF Head(l).op = op /\ Head(l).res = res THEN 1 ELSE 0)
         + CountOpRes(Tail(l), op, res)

\* One logged round-trip: the operation, the identity and secret sent (login
\* only), the token sent (or obtained, for a token fetch), and the remote's
\* answer: HTTP status, the result/status field of the envelope, and its
\* second field (login.code, botpasswords.password).
Entry(op, user, pass, tok, http, res, info) ==
    [op |-> op, user |-> user, pass |-> pass, tok |-> tok,
     http |-> http, res |-> res, info |-> info]

\* Token values: the n-th successful fetch of a kind yields token n.
NextLoginToken == CountOpRes(log, "logintoken", "token") + 1
NextCsrfToken  == CountOpRes(log, "csrftoken", "token") + 1

----------------------------------------------------------------------------
(* Frames *)

MainFrame(u, p) ==
    [fn |-> "main", pc |-> "render", username |-> u, password |-> p,
     final_username |-> <<>>, bot_password |-> None]

LoginFrame(u, p, t) ==
    [fn |-> "login", pc |-> "post", username |-> u, password |-> p, token |-> t,
     bot_username |-> <<>>, bot_password |-> None]

CbpFrame(u, p) ==
    [fn |-> "create_bot_password", pc |-> "login_token",
     main_username |-> u, main_password |-> p, csrf_token |-> 0]

EditFrame(r) ==
    [fn |-> "edit_page", pc |-> "csrf", retries |-> r, attempt |-> 0, csrf_token |-> 0]

NoRet == [kind |-> "none"]

Top == stack[Len(stack)]

Running(fn, pc) == stack # <<>> /\ ret = NoRet /\ Top.fn = fn /\ Top.pc = pc

Returned(fn, pc) == stack # <<>> /\ ret # NoRet /\ Top.fn = fn /\ Top.pc = pc

\* The stack with its top frame's fields updated.
SetTop(f) == [stack EXCEPT ![Len(stack)] = f]

\* An exception propagates: login, create_bot_password and main only log and
\* re-raise, so it unwinds every frame.
Raise(err) ==
    /\ stack' = <<>>
    /\ ret' = NoRet
    /\ outcome' = [kind |-> "raised", err |-> err, val |-> NoRet]

\* The running frame returns `val` to its caller (or ends the run).
Return(val) ==
    IF Len(stack) = 1
    THEN /\ stack' = <<>>
         /\ ret' = NoRet
         /\ outcome' = [kind |-> "returned", err |-> "", val |-> val]
    ELSE /\ stack' = SubSeq(stack, 1, Len(stack) - 1)
         /\ ret' = val
         /\ UNCHANGED outcome

\* The running frame, now at `pc`, calls `callee`; the interpreter raises
\* RecursionError when the stack is full.
Call(caller, callee) ==
    IF Len(stack) >= RecursionLimit
    THEN Raise("RecursionError")
    ELSE /\ stack' = Append(SetTop(caller), callee)
         /\ ret' = NoRet
         /\ UNCHANGED outcome

----------------------------------------------------------------------------
(* get_login_token / get_csrf_token: one live round-trip each *)

\* get_login_token: the log entry of a fetch answered with `r`.
LoginTokenEntry(r) ==
    Entry("logintoken", <<>>, None, IF r = "token" THEN NextLoginToken ELSE 0,
          IF r = "http500" THEN 500 ELSE 200, r, "NONE")

\* get_csrf_token: the log entry of a fetch answered with `r`.
CsrfTokenEntry(r) ==
    Entry("csrftoken", <<>>, None, IF r = "token" THEN NextCsrfToken ELSE 0,
          IF r = "http500" THEN 500 ELSE 200, r, "NONE")

\* Mutant of CsrfRaisesHTTPError: get_csrf_token lets the HTTPError through.
CsrfRaisesHTTPError_Unwrapped(r) == r = "http500"

\* lines 157-159: whatever get_csrf_token's request raised (an HTTPError
\* included), the caller sees a RuntimeError, never an HTTPError.
CsrfRaisesHTTPError(r) == FALSE

----------------------------------------------------------------------------
(* login *)

\* Mutant of LoginSucceeded: a reply that also carries an error code is not
\* taken as a success.
LoginSucceeded_NoCode(reply) == reply.result = "Success" /\ reply.code = "NONE"

\* line 84: login_data.get("result") == "Success"
LoginSucceeded(reply) == reply.result = "Success"

\* Mutant of ShouldFallback: any failure code starts the fallback.
ShouldFallback_AnyCode(reply, username) == reply.code # "NONE" /\ ~HasAt(username)

\* Mutant of ShouldFallback: the '@' test is left out.
ShouldFallback_NoAtTest(reply, username) == reply.code = "WrongPass"

\* line 87: login_data.get("code") == "WrongPass" and "@" not in username
ShouldFallback(reply, username) == reply.code = "WrongPass" /\ ~HasAt(username)

\* line 85: return username, None
LoginResult(username) == [kind |-> "tuple", user |-> username, pass |-> None]

\* lines 70-87, 101: post the login action and branch on the reply.
LoginPost ==
    /\ Running("login", "post")
    /\ \E reply \in LoginReplies :
        /\ log' = Append(log, Entry("login", Top.username, Top.password, Top.token,
                                    reply.http, reply.result, reply.code))
        /\ IF RaisesForStatus(reply.http)
           THEN Raise("HTTPError")
           ELSE IF LoginSucceeded(reply)
           THEN Return(LoginResult(Top.username))
           ELSE IF ShouldFallback(reply, Top.username)
           THEN Call([Top EXCEPT !.pc = "create_bot_password"],
                     CbpFrame(Top.username, Top.password))
           ELSE Raise("Login failed")
    /\ UNCHANGED <<surfaced, args, procs>>

\* line 89: bot_username, bot_password = create_bot_password(...)
LoginCbpReturned ==
    /\ Returned("login", "create_bot_password")
    /\ stack' = SetTop([Top EXCEPT !.pc = "relogin_token",
                                   !.bot_username = ret.user,
                                   !.bot_password = ret.pass])
    /\ ret' = NoRet
    /\ UNCHANGED <<outcome, log, surfaced, args, procs>>

\* Mutant of TokenForRelogin: the token login was called with is passed on.
TokenForRelogin_Reused(token, fetched) == token

\* line 98: the fallback login gets the token just fetched, not login's own.
TokenForRelogin(token, fetched) == fetched

\* lines 94-99: get_login_token(session) is evaluated, then login is called
\* with the bot credentials.
LoginGetLoginToken ==
    /\ Running("login", "relogin_token")
    /\ \E r \in TokenReplies :
        /\ log' = Append(log, LoginTokenEntry(r))
        /\ IF r = "token"
           THEN Call([Top EXCEPT !.pc = "relogin"],
                     LoginFrame(Top.bot_username, Top.bot_password,
                                TokenForRelogin(Top.token, NextLoginToken)))
           ELSE Raise("Could not retrieve login token")
    /\ UNCHANGED <<surfaced, args, procs>>

\* line 94: return login(...)
LoginLoginReturned ==
    /\ Returned("login", "relogin")
    /\ Return(ret)
    /\ UNCHANGED <<log, surfaced, args, procs>>

----------------------------------------------------------------------------
(* create_bot_password *)

\* lines 115-116: fetch a login token and log in with the main credentials.
CbpGetLoginToken ==
    /\ Running("create_bot_password", "login_token")
    /\ \E r \in TokenReplies :
        /\ log' = Append(log, LoginTokenEntry(r))
        /\ IF r = "token"
           THEN Call([Top EXCEPT !.pc = "login"],
                     LoginFrame(Top.main_username, Top.main_password, NextLoginToken))
           ELSE Raise("Could not retrieve login token")
    /\ UNCHANGED <<surfaced, args, procs>>

\* line 116: the value login returns is discarded.
CbpLoginReturned ==
    /\ Returned("create_bot_password", "login")
    /\ stack' = SetTop([Top EXCEPT !.pc = "csrf"])
    /\ ret' = NoRet
    /\ UNCHANGED <<outcome, log, surfaced, args, procs>>

\* line 119: csrf_token = get_csrf_token(session)
CbpGetCsrf ==
    /\ Running("create_bot_password", "csrf")
    /\ \E r \in TokenReplies :
        /\ log' = Append(log, CsrfTokenEntry(r))
        /\ IF r = "token"
           THEN /\ stack' = SetTop([Top EXCEPT !.pc = "post",
                                               !.csrf_token = NextCsrfToken])
                /\ UNCHANGED <<ret, outcome>>
           ELSE Raise("Could not retrieve CSRF token")
    /\ UNCHANGED <<surfaced, args, procs>>

\* line 136: result.get("status") == "success"
BotCreated(reply) == reply.status = "success"

\* line 137: return f"{main_username}@{botname}", result["password"]
CbpResult(main_username, botname, password) ==
    [kind |-> "tuple", user |-> BotUsername(main_username, botname), pass |-> password]

\* lines 122-139: post the botpasswords action and branch on the reply.
CbpPost ==
    /\ Running("create_bot_password", "post")
    /\ \E reply \in BotReplies :
        /\ log' = Append(log, Entry("botpasswords", Top.main_username, None,
                                    Top.csrf_token, reply.http, reply.status,
                                    reply.password))
        /\ IF RaisesForStatus(reply.http)
           THEN Raise("HTTPError")
           ELSE IF BotCreated(reply)
           THEN IF reply.password = "NONE"
                THEN Raise("KeyError")
                ELSE Return(CbpResult(Top.main_username, DEFAULT_BOT_SUFFIX,
                                      reply.password))
           ELSE Raise("Bot creation failed")
    /\ UNCHANGED <<surfaced, args, procs>>

----------------------------------------------------------------------------
(* edit_page *)

\* Mutant of RetryHTTPError: the attempt test is off by one.
RetryHTTPError_OffByOne(status, attempt, retries) ==
    status = 429 /\ attempt + 1 < retries

\* line 196: e.response.status_code == 429 and attempt < retries
RetryHTTPError(status, attempt, retries) == status = 429 /\ attempt < retries

\* Mutant of RetryException: the attempt test is off by one.
RetryException_OffByOne(attempt, retries) == attempt + 1 < retries

\* line 201: attempt < retries
RetryException(attempt, retries) == attempt < retries

\* line 169: for attempt in range(retries + 1) has another value
LoopHasNext(attempt, retries) == attempt + 1 < retries + 1

\* lines 195-204: the two handlers of the attempt loop; `continue` starts the
\* next attempt at the token fetch, or leaves the loop when the range is
\* exhausted (the function then returns None).
EditExcept(isHTTPError, status, err) ==
    IF \/ isHTTPError /\ RetryHTTPError(status, Top.attempt, Top.retries)
       \/ ~isHTTPError /\ RetryException(Top.attempt, Top.retries)
    THEN IF LoopHasNext(Top.attempt, Top.retries)
         THEN /\ stack' = SetTop([Top EXCEPT !.pc = "csrf",
                                             !.attempt = Top.attempt + 1])
              /\ UNCHANGED <<ret, outcome>>
         ELSE Return([kind |-> "None"])
    ELSE Raise(err)

\* Mutant of EditSucceeded: the result is compared with the wrong spelling.
EditSucceeded_WrongCase(reply) == reply.result = "success"

\* Mutant of EditSucceeded: any result field counts as a success.
EditSucceeded_AnyResult(reply) == reply.result # "NONE"

\* line 187: edit_data.get("result") == "Success"
EditSucceeded(reply) == reply.result = "Success"

\* lines 188-192
EditResult(reply) == [kind |-> "dict", success |-> TRUE, revid |-> reply.newrevid]

\* str(e) of the HTTPError raise_for_status raises
HTTPErrorOf(status) == IF status = 429 THEN "HTTPError 429" ELSE "HTTPError"

\* Mutant of CsrfTokenForWrite: a token fetched by an earlier attempt is kept.
CsrfTokenForWrite_Cached(held, fetched) == IF held # 0 THEN held ELSE fetched

\* line 171: csrf_token is assigned the value just fetched, whatever it held.
CsrfTokenForWrite(held, fetched) == fetched

\* line 171: csrf_token = get_csrf_token(session); its failure is a
\* RuntimeError, handled at line 200.
EditGetCsrf ==
    /\ Running("edit_page", "csrf")
    /\ \E r \in TokenReplies :
        /\ log' = Append(log, CsrfTokenEntry(r))
        /\ IF r = "token"
           THEN /\ stack' = SetTop([Top EXCEPT !.pc = "post",
                                               !.csrf_token =
                                                   CsrfTokenForWrite(Top.csrf_token,
                                                                     NextCsrfToken)])
                /\ UNCHANGED <<ret, outcome>>
           ELSE EditExcept(CsrfRaisesHTTPError(r), 500,
                           "Could not retrieve CSRF token")
    /\ UNCHANGED <<surfaced, args, procs>>

\* lines 172-194: post the edit action and branch on the reply.
EditPost ==
    /\ Running("edit_page", "post")
    /\ \E reply \in EditReplies :
        /\ log' = Append(log, Entry("edit", <<>>, None, Top.csrf_token,
                                    reply.http, reply.result, "NONE"))
        /\ IF reply.http = 0
           THEN EditExcept(FALSE, 0, "ConnectionError")
           ELSE IF RaisesForStatus(reply.http)
           THEN EditExcept(TRUE, reply.http, HTTPErrorOf(reply.http))
           ELSE IF EditSucceeded(reply)
           THEN Return(EditResult(reply))
           ELSE EditExcept(FALSE, 0, "Edit failed")
    /\ UNCHANGED <<surfaced, args, procs>>

----------------------------------------------------------------------------
(* main *)

\* line 303: content = render_content(...)
MainRender ==
    /\ Running("main", "render")
    /\ \E ok \in BOOLEAN :
        IF ok
        THEN /\ stack' = SetTop([Top EXCEPT !.pc = "login_token"])
             /\ UNCHANGED <<ret, outcome>>
        ELSE Raise("Could not render template")
    /\ UNCHANGED <<log, surfaced, args, procs>>

\* lines 307-313: fetch a login token and log in with the given credentials.
MainGetLoginToken ==
    /\ Running("main", "login_token")
    /\ \E r \in TokenReplies :
        /\ log' = Append(log, LoginTokenEntry(r))
        /\ IF r = "token"
           THEN Call([Top EXCEPT !.pc = "login"],
                     LoginFrame(Top.username, Top.password, NextLoginToken))
           ELSE Raise("Could not retrieve login token")
    /\ UNCHANGED <<surfaced, args, procs>>

\* lines 308-320: final_username, bot_password = login(...); edit_page(...)
MainLoginReturned ==
    /\ Returned("main", "login")
    /\ Call([Top EXCEPT !.pc = "edit", !.final_username = ret.user,
                        !.bot_password = ret.pass],
            EditFrame(DefaultRetries))
    /\ UNCHANGED <<log, surfaced, args, procs>>

\* line 328: if bot_password
Truthy(password) == password # None /\ password # ""

\* lines 328-334: the credentials main reports after a successful edit.
Reported(final_username, bot_password) ==
    IF Truthy(bot_password)
    THEN [user |-> final_username, pass |-> bot_password]
    ELSE [user |-> <<>>, pass |-> None]

\* lines 322-336: report the result of edit_page.
MainEditReturned ==
    /\ Returned("main", "edit")
    /\ IF ret.kind = "dict" /\ ret.success
       THEN /\ surfaced' = Reported(Top.final_username, Top.bot_password)
            /\ Return([kind |-> "none"])
       ELSE /\ Raise("Publishing failed")
            /\ UNCHANGED surfaced
    /\ UNCHANGED <<log, args, procs>>

----------------------------------------------------------------------------
(* Specifications *)

NotStarted == [kind |-> "running", err |-> "", val |-> NoRet]

\* One CLI run: main with credentials from the command line or environment.
Init ==
    /\ \E u \in Identities :
        /\ args = [fn |-> "main", username |-> u, password |-> PrimaryPassword]
        /\ stack = <<MainFrame(u, PrimaryPassword)>>
    /\ ret = NoRet
    /\ outcome = NotStarted
    /\ log = <<>>
    /\ surfaced = [user |-> <<>>, pass |-> None]
    /\ procs = <<>>

Next ==
    \/ MainRender
    \/ MainGetLoginToken
    \/ LoginPost
    \/ CbpGetLoginToken
    \/ CbpLoginReturned
    \/ CbpGetCsrf
    \/ CbpPost
    \/ LoginCbpReturned
    \/ LoginGetLoginToken
    \/ LoginLoginReturned
    \/ MainLoginReturned
    \/ EditGetCsrf
    \/ EditPost
    \/ MainEditReturned

Spec == Init /\ [][Next]_vars

\* One call of edit_page on an authenticated session, for every retry count.
InitEdit ==
    /\ \E r \in 0..MaxRetries :
        /\ args = [fn |-> "edit_page", retries |-> r]
        /\ stack = <<EditFrame(r)>>
    /\ ret = NoRet
    /\ outcome = NotStarted
    /\ log = <<>>
    /\ surfaced = [user |-> <<>>, pass |-> None]
    /\ procs = <<>>

NextEdit ==
    \/ EditGetCsrf
    \/ EditPost

SpecEdit == InitEdit /\ [][NextEdit]_vars

----------------------------------------------------------------------------
(* Observations on the log, used to state the properties *)

LoginIdx == { i \in 1..Len(log) : log[i].op = "login" }

\* The first and the latest login attempt of the run (LoginIdx # {}).
FirstLogin == CHOOSE i \in LoginIdx : \A j \in LoginIdx : i <= j
LastLogin  == CHOOSE i \in LoginIdx : \A j \in LoginIdx : j <= i

\* The remote reported Success for this login or edit request.
Accepted(e) == e.http = 200 /\ e.res = "Success"

\* The remote rejected this login attempt with the wrong-password code.
WrongPassRejected(e) ==
    e.op = "login" /\ e.http = 200 /\ e.res # "Success" /\ e.info = "WrongPass"

\* The remote created a bot password and handed out its secret.
Provisioned(e) ==
    e.op = "botpasswords" /\ e.http = 200 /\ e.res = "success" /\ e.info # "NONE"

ProvisionedIdx == { i \in 1..Len(log) : Provisioned(log[i]) }

\* create_bot_password calls in progress.
CbpFrames == Cardinality({ i \in 1..Len(stack) : stack[i].fn = "create_bot_password" })

ScopedIdentity == BotUsername(args.username, DEFAULT_BOT_SUFFIX)

\* login has returned to main, which is now in edit_page.
LoginReturnedToMain == stack # <<>> /\ stack[1].fn = "main" /\ stack[1].pc = "edit"

Fetches == CountOp(log, "csrftoken")
Edits   == CountOp(log, "edit")
Last    == log[Len(log)]

RemoteSuccess(e) == e.op = "edit" /\ Accepted(e)

Is429(e) == e.op = "edit" /\ e.http = 429

\* An HTTP error status other than 429 on the edit request.
OtherHTTPStatus(e) == e.op = "edit" /\ e.http >= 400 /\ e.http # 429

FailedFetch(e) == e.op = "csrftoken" /\ e.res # "token"

FailedAttempt(e) == FailedFetch(e) \/ (e.op = "edit" /\ ~RemoteSuccess(e))

\* The failure an attempt ending with round-trip e is observed as.
FailureOf(e) ==
    CASE e.op = "csrftoken" -> "Could not retrieve CSRF token"
      [] e.op = "edit" /\ e.http = 0 -> "ConnectionError"
      [] e.op = "edit" /\ e.http = 429 -> "HTTPError 429"
      [] e.op = "edit" /\ e.http >= 400 /\ e.http # 429 -> "HTTPError"
      [] OTHER -> "Edit failed"

AtNextAttempt == Running("edit_page", "csrf") /\ Top.attempt = Fetches

----------------------------------------------------------------------------
(* Properties *)

\* C1: when the first login, made with an identity without '@', is rejected
\* with the wrong-password code, create_bot_password is invoked once and the
\* botpasswords request sent at most once, and any later wrong-password
\* rejection ends the run (it is the last round-trip and login raises).
C1_ProvisioningExactlyOnce ==
    (LoginIdx # {} /\ WrongPassRejected(log[FirstLogin]) /\ ~HasAt(args.username)) =>
        /\ CbpFrames <= 1
        /\ CountOp(log, "botpasswords") <= 1
        /\ \A i \in LoginIdx :
              (i # FirstLogin /\ WrongPassRejected(log[i])) =>
                  (i = Len(log) /\ outcome.kind = "raised")

\* C2: the fallback is bounded by the program, not by the interpreter: one
\* run makes at most three login attempts (primary, re-authentication inside
\* provisioning, scoped) and never ends by exhausting the call stack.
C2_LoginAttemptsBounded ==
    /\ CountOp(log, "login") <= 3
    /\ outcome.err # "RecursionError"

\* C3: when the first login is rejected with wrong-password, a bot password is
\* provisioned and the latest login, made with the scoped identity, succeeded,
\* login returns the scoped identity together with the provisioned secret.
C3_ScopedCredentialReturned ==
    ( /\ LoginReturnedToMain
      /\ WrongPassRejected(log[FirstLogin])
      /\ ProvisionedIdx # {}
      /\ log[LastLogin].user = ScopedIdentity
      /\ Accepted(log[LastLogin]) ) =>
        /\ stack[1].final_username = ScopedIdentity
        /\ stack[1].bot_password # None
        /\ \E i \in ProvisionedIdx : stack[1].bot_password = log[i].info

\* C4: when the remote reports Success for the first login attempt, login
\* returns (the input identity, None) and the run makes no other login
\* attempt, no further login-token fetch and no botpasswords request.
C4_FirstAttemptSuccess ==
    (LoginIdx # {} /\ Accepted(log[FirstLogin])) =>
        /\ CountOp(log, "login") = 1
        /\ CountOp(log, "logintoken") = 1
        /\ CountOp(log, "botpasswords") = 0
        /\ Len(log) = FirstLogin =>
              /\ outcome.kind = "running"
              /\ IF ret # NoRet
                 THEN /\ Len(stack) = 1 /\ stack[1].fn = "main"
                      /\ ret = [kind |-> "tuple", user |-> args.username,
                                pass |-> None]
                 ELSE LoginReturnedToMain
        /\ (Len(log) > FirstLogin /\ stack # <<>>) => LoginReturnedToMain
        /\ LoginReturnedToMain =>
              /\ stack[1].final_username = args.username
              /\ stack[1].bot_password = None
        /\ Len(log) > FirstLogin => log[FirstLogin + 1].op = "csrftoken"

C4_Witness ==
    /\ LoginIdx # {} /\ Accepted(log[FirstLogin])
    /\ LoginReturnedToMain
    /\ stack[1].final_username = args.username

\* C5: every identity a login attempt is made with is the identity main was
\* given or that identity + "@" + the bot name; every scoped identity (in a
\* botpasswords request, in the value create_bot_password returns, in a
\* fallback login) is derived from the identity main was given, which then
\* contains no '@'.
C5_ScopedIdentityDerivation ==
    /\ \A i \in 1..Len(log) :
          /\ log[i].op = "login" =>
                \/ log[i].user = args.username
                \/ log[i].user = ScopedIdentity /\ ~HasAt(args.username)
          /\ log[i].op = "botpasswords" =>
                log[i].user = args.username /\ ~HasAt(args.username)
    /\ \A i \in 1..Len(stack) :
          /\ stack[i].fn = "create_bot_password" =>
                stack[i].main_username = args.username /\ ~HasAt(args.username)
          /\ (stack[i].fn = "login" /\ stack[i].bot_username # <<>>) =>
                stack[i].bot_username = ScopedIdentity /\ ~HasAt(args.username)
    /\ (ret.kind = "tuple" /\ ret.pass # None) =>
          ret.user = ScopedIdentity /\ ~HasAt(args.username)

C5_Witness ==
    /\ LoginIdx # {}
    /\ log[LastLogin].user = ScopedIdentity
    /\ ProvisionedIdx # {}

\* C6: edit_page returns exactly when the remote has reported edit Success,
\* which is then its latest round-trip within retries + 1 attempts, and what
\* it returns is the success result; when it raises, the failure is the one
\* of its latest attempt.
C6_SuccessIffRemoteSuccess ==
    /\ (outcome.kind = "returned") <=> (\E i \in 1..Len(log) : RemoteSuccess(log[i]))
    /\ \A i \in 1..Len(log) : RemoteSuccess(log[i]) => i = Len(log)
    /\ outcome.kind = "returned" =>
          /\ outcome.val.kind = "dict"
          /\ outcome.val.success
          /\ outcome.val.revid = 12345
          /\ Fetches <= args.retries + 1
    /\ outcome.kind = "raised" =>
          /\ log # <<>>
          /\ FailedAttempt(Last)
          /\ outcome.err = FailureOf(Last)

C6_Witness ==
    /\ outcome.kind = "returned"
    /\ Fetches = 3
    /\ RemoteSuccess(Last)

\* C7 as stated: a failed attempt that is not an HTTP 429 is retried while
\* attempts remain, so edit_page raises only after retries + 1 token fetches.
C7_RetryOnAnyOtherFailure ==
    /\ (log # <<>> /\ FailedAttempt(Last) /\ ~Is429(Last)
          /\ Fetches < args.retries + 1) => AtNextAttempt
    /\ outcome.kind = "raised" => Fetches = args.retries + 1

\* C7 as amended: a failed attempt is retried while attempts remain unless the
\* edit request was answered with an HTTP error status other than 429, which
\* is raised at once; edit_page raises only on such a status or after
\* retries + 1 token fetches.
C7_RetryUnlessOtherHTTPStatus ==
    /\ (log # <<>> /\ FailedAttempt(Last) /\ ~Is429(Last) /\ ~OtherHTTPStatus(Last)
          /\ Fetches < args.retries + 1) => AtNextAttempt
    /\ (log # <<>> /\ OtherHTTPStatus(Last)) =>
          outcome.kind = "raised" /\ outcome.err = "HTTPError"
    /\ outcome.kind = "raised" =>
          Fetches = args.retries + 1 \/ OtherHTTPStatus(Last)

C7_Witness ==
    /\ outcome.kind = "raised"
    /\ args.retries = 2
    /\ Fetches = 3
    /\ log[2].op = "edit" /\ log[2].http = 200 /\ log[2].res = "Failure"
    /\ Last.op = "edit" /\ Last.http = 0

\* C8: one edit_page call fetches at most retries + 1 write tokens and
\* submits at most one edit per fetch; a failed fetch is followed by another
\* attempt while fewer than retries + 1 fetches were made, and raised after.
C8_TokenFetchBound ==
    /\ Fetches <= args.retries + 1
    /\ Edits <= Fetches
    /\ (log # <<>> /\ FailedFetch(Last)) =>
          IF Fetches < args.retries + 1
          THEN AtNextAttempt
          ELSE outcome.kind = "raised"

C8_Witness ==
    /\ outcome.kind = "raised"
    /\ args.retries = 2
    /\ Fetches = 3
    /\ Edits = 0
    /\ \E i \in 1..Len(log) : log[i].http = 500

\* C9: an edit answered with HTTP 429 is followed by another attempt, starting
\* at the token fetch, while attempts remain, and raised on the last attempt;
\* a 429 on the first attempt followed by Success returns the success result
\* after two token fetches.
C9_RateLimitRetry ==
    /\ (log # <<>> /\ Is429(Last)) =>
          IF Fetches < args.retries + 1
          THEN AtNextAttempt
          ELSE outcome.kind = "raised" /\ outcome.err = "HTTPError 429"
    /\ (Len(log) = 4 /\ Is429(log[2]) /\ RemoteSuccess(Last)) =>
          /\ outcome.kind = "returned"
          /\ outcome.val.kind = "dict" /\ outcome.val.success
          /\ outcome.val.revid = 12345
          /\ Fetches = 2

C9_Witness ==
    /\ Len(log) = 4
    /\ Is429(log[2])
    /\ log[3].op = "csrftoken" /\ log[3].res = "token"
    /\ RemoteSuccess(log[4])
    /\ outcome.kind = "returned"

\* C10: a run that has ended after the remote provisioned a bot password has
\* reported the scoped identity and its secret to the operator.
C10_ProvisionedCredentialSurfaced ==
    (outcome.kind # "running" /\ ProvisionedIdx # {}) =>
        \E i \in ProvisionedIdx :
            surfaced = [user |-> ScopedIdentity, pass |-> log[i].info]

\* C12: in edit_page every edit request directly follows a successful write
\* token fetch and carries the token that fetch returned; no two edit requests
\* of one call carry the same token.
C12_FreshTokenPerWrite ==
    /\ \A i \in 1..Len(log) :
          log[i].op = "edit" =>
              /\ i > 1
              /\ log[i - 1].op = "csrftoken" /\ log[i - 1].res = "token"
              /\ log[i].tok = log[i - 1].tok
    /\ \A i, j \in 1..Len(log) :
          (i < j /\ log[i].op = "edit" /\ log[j].op = "edit") =>
              log[i].tok # log[j].tok

C12_Witness ==
    /\ Edits = 3
    /\ Last.op = "edit"
    /\ Last.tok = 3

\* C13: once the remote has reported edit Success, edit_page has returned and
\* makes no further round-trip; one call sees at most one successful write;
\* whenever edit_page ends without raising, it ends with the success result.
C13_ReturnsAtOnceOnSuccess ==
    /\ \A i \in 1..Len(log) :
          RemoteSuccess(log[i]) =>
              i = Len(log) /\ stack = <<>> /\ outcome.kind = "returned"
    /\ Cardinality({ i \in 1..Len(log) : RemoteSuccess(log[i]) }) <= 1
    /\ (stack = <<>> /\ outcome.kind # "raised") =>
          /\ outcome.kind = "returned"
          /\ outcome.val = [kind |-> "dict", success |-> TRUE, revid |-> 12345]

C13_Witness ==
    /\ Len(log) = 2
    /\ RemoteSuccess(Last)
    /\ outcome.kind = "returned"
    /\ args.retries = 2

\* A login attempt the remote did not accept and that cannot start the
\* fallback: another code than wrong-password, an identity with '@', an
\* envelope without result and code, or an HTTP error status.
TerminalRejection(e) ==
    /\ e.op = "login"
    /\ ~Accepted(e)
    /\ (e.http # 200 \/ e.info # "WrongPass" \/ HasAt(e.user))

\* C14: a login attempt rejected with another code than wrong-password, or
\* rejected for an identity containing '@', or answered with a malformed
\* response, is the last round-trip of the run: login raises and sends neither
\* a botpasswords request nor another login.
C14_OtherFailureIsTerminal ==
    \A i \in LoginIdx :
        TerminalRejection(log[i]) =>
            /\ i = Len(log)
            /\ stack = <<>>
            /\ outcome.kind = "raised"
            /\ outcome.err \in { "Login failed", "HTTPError" }

C14_Witness ==
    /\ log # <<>>
    /\ WrongPassRejected(Last)
    /\ Last.user = ScopedIdentity
    /\ ProvisionedIdx # {}
    /\ outcome.kind = "raised"

\* The botpasswords request did not yield a credential.
FailedCreation(e) == e.op = "botpasswords" /\ ~Provisioned(e)

\* C15: a failed botpasswords request is the last round-trip of the run: the
\* failure unwinds create_bot_password and login, nothing is retried.
C15_ProvisioningFailureAborts ==
    \A i \in 1..Len(log) :
        FailedCreation(log[i]) =>
            /\ i = Len(log)
            /\ stack = <<>>
            /\ outcome.kind = "raised"
            /\ outcome.err \in { "HTTPError", "KeyError", "Bot creation failed" }

C15_Witness ==
    /\ log # <<>>
    /\ FailedCreation(Last)
    /\ Last.res = "error"
    /\ outcome.kind = "raised"

\* C16: every botpasswords request directly follows a successful write token
\* fetch, whose token it carries, which directly follows an accepted login
\* made with the primary credential.
C16_ProvisioningAfterPrimaryLogin ==
    \A i \in 1..Len(log) :
        log[i].op = "botpasswords" =>
            /\ i >= 3
            /\ log[i - 1].op = "csrftoken" /\ log[i - 1].res = "token"
            /\ log[i].tok = log[i - 1].tok
            /\ log[i - 2].op = "login" /\ Accepted(log[i - 2])
            /\ log[i - 2].user = args.username
            /\ log[i - 2].pass = args.password

\* C17: every login attempt directly follows a successful login token fetch
\* and carries the token that fetch returned; no two login attempts carry the
\* same token; a login with the scoped identity is made with a token fetched
\* after the botpasswords request succeeded.
C17_FreshLoginToken ==
    /\ \A i \in LoginIdx :
          /\ i > 1
          /\ log[i - 1].op = "logintoken" /\ log[i - 1].res = "token"
          /\ log[i].tok = log[i - 1].tok
          /\ (log[i].user = ScopedIdentity /\ ~HasAt(args.username)) =>
                \E j \in ProvisionedIdx : j < i - 1
    /\ \A i, j \in LoginIdx : i # j => log[i].tok # log[j].tok

C17_Witness ==
    /\ LoginIdx # {}
    /\ log[LastLogin].user = ScopedIdentity
    /\ ~HasAt(args.username)
    /\ log[LastLogin].tok = 3

----------------------------------------------------------------------------
(* wiki_client.py and api.py                                               *)
(*                                                                         *)
(* Every request being served has its own entry in `procs`: its position,  *)
(* its local variables and the round-trips it has made (`hist`, oldest     *)
(* first).  The endpoint of api.py is a plain `def`, so requests run on    *)
(* worker threads and their round-trips interleave freely.                 *)

\* Bound: the number of publish requests served at the same time.
NumRequests == 2

\* Characters removed by str.strip().
Whitespace == { " ", "\t", "\n", "\r" }

RECURSIVE LStrip(_)
LStrip(s) ==
    IF s # <<>> /\ Head(s) \in Whitespace THEN LStrip(Tail(s)) ELSE s

RECURSIVE RStrip(_)
RStrip(s) ==
    IF s # <<>> /\ s[Len(s)] \in Whitespace
    THEN RStrip(SubSeq(s, 1, Len(s) - 1))
    ELSE s

\* str.strip()
Strip(s) == RStrip(LStrip(s))

UpperCase ==
    << "A", "B", "C", "D", "E", "F", "G", "H", "I", "J", "K", "L", "M",
       "N", "O", "P", "Q", "R", "S", "T", "U", "V", "W", "X", "Y", "Z" >>

LowerCase ==
    << "a", "b", "c", "d", "e", "f", "g", "h", "i", "j", "k", "l", "m",
       "n", "o", "p", "q", "r", "s", "t", "u", "v", "w", "x", "y", "z" >>

LowerChar(c) ==
    IF \E i \in DOMAIN UpperCase : UpperCase[i] = c
    THEN LowerCase[CHOOSE i \in DOMAIN UpperCase : UpperCase[i] = c]
    ELSE c

\* str.lower()
Lower(s) == [i \in 1..Len(s) |-> LowerChar(s[i])]

\* str.startswith(prefix)
StartsWith(s, prefix) ==
    Len(s) >= Len(prefix) /\ SubSeq(s, 1, Len(prefix)) = prefix

\* The literal "#redirect" of line 101.
RedirectMarker == << "#", "r", "e", "d", "i", "r", "e", "c", "t" >>

\* Mutant of IsRedirect: the content is not lower-cased before the test.
IsRedirect_CaseSensitive(content) == StartsWith(Strip(content), RedirectMarker)

\* Mutant of IsRedirect: the content is not stripped before the test.
IsRedirect_Unstripped(content) == StartsWith(Lower(content), RedirectMarker)

\* content.strip().lower().startswith("#redirect")
IsRedirect(content) == StartsWith(Lower(Strip(content)), RedirectMarker)

\* Page contents the content read can return.
RedirectTarget ==
    << "#", "R", "E", "D", "I", "R", "E", "C", "T", " ", "[", "[", "T", "]", "]" >>
RedirectLower == << "#", "r", "e", "d", "i", "r", "e", "c", "t" >>
RedirectPadded ==
    << " ", "\n", "#", "R", "e", "d", "i", "r", "e", "c", "t", " ", "x" >>
RedirectTabbed ==
    << "\t", "#", "R", "E", "D", "I", "R", "E", "C", "T", "\n" >>
TruncatedMarker == << "#", "R", "E", "D", "I", "R", "E", "C" >>
MarkerInside == << "x", " ", "#", "R", "E", "D", "I", "R", "E", "C", "T" >>
SplitMarker == << "#", " ", "r", "e", "d", "i", "r", "e", "c", "t" >>
PlainText == << "t", "e", "x", "t" >>
PaddedText == << " ", "T", "e", "x", "t", "\n" >>
Blank == << " ", " " >>
Empty == << >>

Contents ==
    { RedirectTarget, RedirectLower, RedirectPadded, RedirectTabbed,
      TruncatedMarker, MarkerInside, SplitMarker, PlainText, PaddedText,
      Blank, Empty }

\* The text render_content produces for a publish request.
Rendered == << "w", "i", "k", "i" >>

\* Replies to the content query of copy_page: the page list is missing or
\* empty, the page has no revisions, or the page's content.
ReadReplies ==
    { [pages |-> "none", content |-> <<>>],
      [pages |-> "norevisions", content |-> <<>>] }
    \cup { [pages |-> "content", content |-> c] : c \in Contents }

\* Replies to a token query of wiki_client.py, which never looks at the
\* HTTP status: the envelope holds the token, or indexing it raises.
ClientTokenReplies == { "token", "missing" }

\* The state of one request: `fn` is the entry point ("api" for
\* publish_to_sandbox_only, "copy" for copy_page); `session` is 0 until
\* make_session has created one.
ClientProc(fn) ==
    [fn |-> fn,
     pc |-> IF fn = "api" THEN "render" ELSE "make_session",
     session |-> 0, login_token |-> <<>>, csrf_token |-> <<>>,
     content |-> <<>>, hist |-> <<>>,
     result |-> [kind |-> "running", detail |-> ""]]

\* One round-trip of a request: the session it was made on, the operation,
\* the token sent (or obtained), the remote's answer and the text sent
\* (edit) or received (read).
ClientEntry(sess, op, tok, http, res, info, text) ==
    [sess |-> sess, op |-> op, tok |-> tok, http |-> http, res |-> res,
     info |-> info, text |-> text]

\* Mutant of NewSession: one module-level session serves every request.
NewSession_Shared(p) == 1

\* requests.Session(): a new object, unlike every one created before.
NewSession(p) == 1 + Cardinality({ r \in DOMAIN p : p[r].session # 0 })

\* Tokens handed out so far on session s, by any request.
Issued(s, op) ==
    Cardinality(UNION { { <<r, i>> : i \in { j \in 1..Len(procs[r].hist) :
                                              /\ procs[r].hist[j].sess = s
                                              /\ procs[r].hist[j].op = op
                                              /\ procs[r].hist[j].res = "token" } }
                        : r \in DOMAIN procs })

\* The token the remote hands out next on session s: bound to the session.
SessionToken(s, op) == << s, Issued(s, op) + 1 >>

\* An exception leaves the entry point: the endpoint turns it into an
\* HTTPException with status 500 (api.py lines 68-70), copy_page raises it.
ClientRaise(p, err) ==
    [p EXCEPT !.pc = "done",
              !.result = [kind |-> IF p.fn = "api" THEN "HTTPException"
                                                   ELSE "raised",
                          detail |-> err]]

ClientReturn(p) ==
    [p EXCEPT !.pc = "done",
              !.result = [kind |-> "returned", detail |-> "success"]]

\* Mutant of ClientLoginSucceeded: the login reply is not looked at.
ClientLoginSucceeded_Unchecked(reply) == TRUE

\* line 37: r2.json().get("login", {}).get("result") == "Success"
ClientLoginSucceeded(reply) == reply.result = "Success"

\* lines 70 and 116
ClientEditSucceeded(reply) == reply.result = "Success"

\* api.py line 46: render_content, which raises when the template is
\* missing or does not render.
ApiRender(r) ==
    /\ r \in DOMAIN procs
    /\ procs[r].pc = "render"
    /\ \E ok \in BOOLEAN :
        procs' = [procs EXCEPT ![r] =
                    IF ok
                    THEN [procs[r] EXCEPT !.pc = "make_session",
                                          !.content = Rendered]
                    ELSE ClientRaise(procs[r], "TemplateNotFound")]
    /\ UNCHANGED <<stack, ret, outcome, log, surfaced, args>>

\* make_session lines 14-26: a new session, then the login token query.
MakeSessionGetToken(r) ==
    /\ r \in DOMAIN procs
    /\ procs[r].pc = "make_session"
    /\ \E reply \in ClientTokenReplies :
        LET s == NewSession(procs)
            t == IF reply = "token" THEN SessionToken(s, "logintoken") ELSE <<>>
            p == [procs[r] EXCEPT
                    !.session = s,
                    !.hist = Append(@, ClientEntry(s, "logintoken", t, 200,
                                                   reply, "NONE", <<>>))]
        IN  procs' = [procs EXCEPT ![r] =
                        IF reply = "token"
                        THEN [p EXCEPT !.pc = "login", !.login_token = t]
                        ELSE ClientRaise(p, "KeyError")]
    /\ UNCHANGED <<stack, ret, outcome, log, surfaced, args>>

\* make_session lines 29-40: the login request; anything but Success raises.
MakeSessionLogin(r) ==
    /\ r \in DOMAIN procs
    /\ procs[r].pc = "login"
    /\ \E reply \in LoginReplies :
        LET p == [procs[r] EXCEPT
                    !.hist = Append(@, ClientEntry(procs[r].session, "login",
                                                   procs[r].login_token,
                                                   reply.http, reply.result,
                                                   reply.code, <<>>))]
        IN  procs' = [procs EXCEPT ![r] =
                        IF ClientLoginSucceeded(reply)
                        THEN [p EXCEPT !.pc = "csrf"]
                        ELSE ClientRaise(p, "Wikipedia login failed")]
    /\ UNCHANGED <<stack, ret, outcome, log, surfaced, args>>

\* get_csrf_token (lines 42-48), called at line 57 and at line 81.
ClientGetCsrf(r) ==
    /\ r \in DOMAIN procs
    /\ procs[r].pc = "csrf"
    /\ \E reply \in ClientTokenReplies :
        LET s == procs[r].session
            t == IF reply = "token" THEN SessionToken(s, "csrftoken") ELSE <<>>
            p == [procs[r] EXCEPT
                    !.hist = Append(@, ClientEntry(s, "csrftoken", t, 200,
                                                   reply, "NONE", <<>>))]
        IN  procs' = [procs EXCEPT ![r] =
                        IF reply = "token"
                        THEN [p EXCEPT !.csrf_token = t,
                                       !.pc = IF p.fn = "copy" THEN "read"
                                                               ELSE "edit"]
                        ELSE ClientRaise(p, "KeyError")]
    /\ UNCHANGED <<stack, ret, outcome, log, surfaced, args>>

\* The edit request and the test of its reply (lines 59-77 and 105-123).
ClientEditStep(r) ==
    \E reply \in EditReplies :
        LET p == [procs[r] EXCEPT
                    !.hist = Append(@, ClientEntry(procs[r].session, "edit",
                                                   procs[r].csrf_token,
                                                   reply.http, reply.result,
                                                   "NONE", procs[r].content))]
        IN  procs' = [procs EXCEPT ![r] =
                        IF reply.http = 0
                        THEN ClientRaise(p, "ConnectionError")
                        ELSE IF ClientEditSucceeded(reply)
                        THEN ClientReturn(p)
                        ELSE ClientRaise(p, "RuntimeError")]

\* publish_page lines 59-77, and the endpoint's return (api.py lines 58-66).
PublishEdit(r) ==
    /\ r \in DOMAIN procs
    /\ procs[r].fn = "api"
    /\ procs[r].pc = "edit"
    /\ ClientEditStep(r)
    /\ UNCHANGED <<stack, ret, outcome, log, surfaced, args>>

\* copy_page lines 84-102: the content query and the redirect safeguard.
CopyRead(r) ==
    /\ r \in DOMAIN procs
    /\ procs[r].pc = "read"
    /\ \E reply \in ReadReplies :
        LET p == [procs[r] EXCEPT
                    !.hist = Append(@, ClientEntry(procs[r].session, "read",
                                                   <<>>, 200, reply.pages,
                                                   "NONE", reply.content))]
        IN  procs' = [procs EXCEPT ![r] =
                        IF reply.pages # "content"
                        THEN ClientRaise(p, "Failed to fetch content")
                        ELSE IF IsRedirect(reply.content)
                        THEN ClientRaise(p, "Sandbox page is a redirect")
                        ELSE [p EXCEPT !.content = reply.content,
                                       !.pc = "edit"]]
    /\ UNCHANGED <<stack, ret, outcome, log, surfaced, args>>

\* copy_page lines 105-123.
CopyEdit(r) ==
    /\ r \in DOMAIN procs
    /\ procs[r].fn = "copy"
    /\ procs[r].pc = "edit"
    /\ ClientEditStep(r)
    /\ UNCHANGED <<stack, ret, outcome, log, surfaced, args>>

\* NumRequests requests to POST /api/wiki/publish, served concurrently.
InitApi ==
    /\ args = [fn |-> "publish_to_sandbox_only"]
    /\ stack = <<>>
    /\ ret = NoRet
    /\ outcome = NotStarted
    /\ log = <<>>
    /\ surfaced = [user |-> <<>>, pass |-> None]
    /\ procs = [r \in 1..NumRequests |-> ClientProc("api")]

NextApi ==
    \/ \E r \in DOMAIN procs : ApiRender(r)
    \/ \E r \in DOMAIN procs : MakeSessionGetToken(r)
    \/ \E r \in DOMAIN procs : MakeSessionLogin(r)
    \/ \E r \in DOMAIN procs : ClientGetCsrf(r)
    \/ \E r \in DOMAIN procs : PublishEdit(r)

SpecApi == InitApi /\ [][NextApi]_vars

\* One call of copy_page.
InitCopy ==
    /\ args = [fn |-> "copy_page"]
    /\ stack = <<>>
    /\ ret = NoRet
    /\ outcome = NotStarted
    /\ log = <<>>
    /\ surfaced = [user |-> <<>>, pass |-> None]
    /\ procs = [r \in {1} |-> ClientProc("copy")]

NextCopy ==
    \/ \E r \in DOMAIN procs : MakeSessionGetToken(r)
    \/ \E r \in DOMAIN procs : MakeSessionLogin(r)
    \/ \E r \in DOMAIN procs : ClientGetCsrf(r)
    \/ \E r \in DOMAIN procs : CopyRead(r)
    \/ \E r \in DOMAIN procs : CopyEdit(r)

SpecCopy == InitCopy /\ [][NextCopy]_vars

\* A CLI run, or requests served by the API.
InitAny == Init \/ InitApi

NextAny == Next \/ NextApi

SpecAny == InitAny /\ [][NextAny]_vars

----------------------------------------------------------------------------
(* Observations on the requests of wiki_client.py *)

Hist(r) == procs[r].hist

HistIdx(r, op) == { i \in 1..Len(Hist(r)) : Hist(r)[i].op = op }

\* The marker in capitals, position by position.
UpperMarker == << "#", "R", "E", "D", "I", "R", "E", "C", "T" >>

\* The content is some whitespace followed by the nine characters of the
\* marker, each in either case.
BeginsWithMarker(c) ==
    \E k \in 0..Len(c) :
        /\ \A i \in 1..k : c[i] \in Whitespace
        /\ Len(c) >= k + Len(RedirectMarker)
        /\ \A j \in 1..Len(RedirectMarker) :
              c[k + j] \in { RedirectMarker[j], UpperMarker[j] }

\* C11: when the content read by copy_page begins, leading whitespace and
\* case aside, with "#redirect", copy_page raises and has sent no edit
\* request; every edit request it sends carries the content it read, and that
\* content does not begin with the marker.
C11_RedirectNeverCopied ==
    \A r \in DOMAIN procs :
        /\ \A i \in HistIdx(r, "read") :
              (Hist(r)[i].res = "content" /\ BeginsWithMarker(Hist(r)[i].text)) =>
                  /\ procs[r].result.kind = "raised"
                  /\ HistIdx(r, "edit") = {}
        /\ \A j \in HistIdx(r, "edit") :
              /\ ~BeginsWithMarker(Hist(r)[j].text)
              /\ \E i \in HistIdx(r, "read") :
                    i < j /\ Hist(r)[i].text = Hist(r)[j].text

C11_Witness ==
    \E r \in DOMAIN procs :
        /\ procs[r].fn = "copy"
        /\ procs[r].result.detail = "Sandbox page is a redirect"
        /\ Hist(r)[Len(Hist(r))].text = RedirectPadded

\* C18: in copy_page the round-trip made right before the edit request is
\* the write token fetch whose token the edit request carries.
C18_TokenFetchedRightBeforeWrite ==
    \A r \in DOMAIN procs :
        procs[r].fn = "copy" =>
            \A j \in HistIdx(r, "edit") :
                /\ j > 1
                /\ Hist(r)[j - 1].op = "csrftoken"
                /\ Hist(r)[j - 1].res = "token"
                /\ Hist(r)[j].tok = Hist(r)[j - 1].tok

\* C19: no two publish requests hold the same session; every round-trip of a
\* request is made on the session the request created; every edit request
\* comes after a login on that session and carries a write token fetched by
\* the same request; no token is sent by two requests.
C19_OwnSessionPerRequest ==
    /\ \A r1, r2 \in DOMAIN procs :
          (r1 # r2 /\ procs[r1].session # 0) =>
              procs[r1].session # procs[r2].session
    /\ \A r \in DOMAIN procs :
          /\ \A i \in 1..Len(Hist(r)) : Hist(r)[i].sess = procs[r].session
          /\ \A j \in HistIdx(r, "edit") :
                /\ \E i \in HistIdx(r, "csrftoken") :
                      i < j /\ Hist(r)[i].tok = Hist(r)[j].tok
                /\ \E i \in HistIdx(r, "login") : i < j
    /\ \A r1, r2 \in DOMAIN procs :
          r1 # r2 =>
              \A i \in HistIdx(r1, "edit") \cup HistIdx(r1, "login") :
                  \A j \in 1..Len(Hist(r2)) :
                      Hist(r1)[i].tok # Hist(r2)[j].tok

C19_Witness ==
    /\ Cardinality(DOMAIN procs) >= 2
    /\ \A r \in DOMAIN procs :
          /\ procs[r].fn = "api"
          /\ procs[r].result.kind = "returned"

\* C20: a write token fetch or an edit request is made only after a login
\* request answered Success: in a run of main the latest login attempt was
\* accepted and came before it; in a publish request a login on the same
\* session came before it; a request whose login was answered otherwise
\* makes no round-trip after it.
C20_NoWriteBeforeLogin ==
    /\ \A i \in 1..Len(log) :
          /\ log[i].op \in {"csrftoken", "edit"} =>
                \E j \in LoginIdx : j < i /\ Accepted(log[j])
          /\ log[i].op = "edit" =>
                Accepted(log[LastLogin]) /\ LastLogin < i
    /\ \A r \in DOMAIN procs :
          /\ \A i \in HistIdx(r, "csrftoken") \cup HistIdx(r, "edit") :
                \E j \in HistIdx(r, "login") :
                    /\ j < i
                    /\ Hist(r)[j].res = "Success"
                    /\ Hist(r)[j].sess = Hist(r)[i].sess
          /\ \A j \in HistIdx(r, "login") :
                Hist(r)[j].res # "Success" =>
                    /\ j = Len(Hist(r))
                    /\ procs[r].result.kind = "HTTPException"

C20_Witness ==
    \E r1, r2 \in DOMAIN procs :
        /\ procs[r1].result.detail = "Wikipedia login failed"
        /\ HistIdx(r2, "edit") # {}

====
